---- MODULE Spec2Model ----
(***************************************************************************)
(* The tool registry and tool dispatcher of the HubSpot MCP server         *)
(* (src/index.js): the CallToolRequestSchema handler, the hubspotRequest   *)
(* helper it calls, and the pipeline-summary aggregation.                  *)
(*                                                                         *)
(* JavaScript values are records [t, s, n]: t is the typeof tag, s the     *)
(* characters of a string, n the value of a number.  Strings are sequences *)
(* of one-character strings, texts built by template literals are the      *)
(* concatenation of their pieces.  An object is a function from its own    *)
(* keys to values.                                                         *)
(***************************************************************************)
EXTENDS Integers, Sequences, FiniteSets, TLC

VARIABLES
    pc,             \* per invocation: "idle", "awaiting" (suspended in await fetch), "done"
    req,            \* per invocation: request.params = [name, hasArgs, args]
    sent,           \* per invocation: the outbound requests issued so far, in order
    resp,           \* per invocation: the upstream outcome of the last outbound request
    result,         \* per invocation: what the handler returned (or that it raised)
    builtinWrites   \* process-wide: the members of Object.prototype that carry a count/totalValue written by an aggregation

vars == <<pc, req, sent, resp, result, builtinWrites>>

----------------------------------------------------------------------------
(* Bounds of the model *)

MaxInFlight == 2    \* invocation slots
MaxResults == 1     \* records in a search response
MaxDeals == 3       \* deals in a pipeline-summary response

Slots == 1..MaxInFlight

----------------------------------------------------------------------------
(* JavaScript values *)

Str(chars) == [t |-> "string", s |-> chars, n |-> 0]
Num(k) == [t |-> "number", s |-> <<>>, n |-> k]
Undefined == [t |-> "undefined", s |-> <<>>, n |-> 0]

\* ToBoolean, as `||` and `if` apply it
Truthy(v) ==
    CASE v.t = "string" -> v.s # <<>>
      [] v.t = "number" -> v.n # 0
      [] OTHER -> FALSE

\* a || d
OrElse(v, d) == IF Truthy(v) THEN v ELSE d

\* obj.key: an own property, else undefined
Get(obj, key) == IF key \in DOMAIN obj THEN obj[key] ELSE Undefined

\* JSON.stringify of an object: a property whose value is undefined is left out
JsonObject(obj) ==
    [k \in {key \in DOMAIN obj : obj[key] # Undefined} |-> obj[k]]

\* whether sub occurs in seq as a contiguous run
Contains(seq, sub) ==
    \E i \in 0..(Len(seq) - Len(sub)) :
        \A j \in 1..Len(sub) : seq[i + j] = sub[j]

\* String(n) for a non-negative integer: its decimal digits
DigitChar(d) == <<"0", "1", "2", "3", "4", "5", "6", "7", "8", "9">>[d + 1]

RECURSIVE NumToChars(_)
NumToChars(k) ==
    IF k < 10 THEN <<DigitChar(k)>>
    ELSE NumToChars(k \div 10) \o <<DigitChar(k % 10)>>

----------------------------------------------------------------------------
(* Tool registry: the ListToolsRequestSchema handler *)

ToolNamesShort ==
    <<"search_contacts", "get_contact", "create_contact",
      "search_deals", "create_deal">>
ToolNames ==
    <<"search_contacts", "get_contact", "create_contact",
      "search_deals", "create_deal", "get_pipeline_summary">>

\* inputSchema.required of a tool
Required(name) ==
    CASE name = "search_contacts" -> {"query"}
      [] name = "get_contact" -> {"contact_id"}
      [] name = "create_contact" -> {"email"}
      [] name = "create_deal" -> {"dealname", "amount", "dealstage"}
      [] OTHER -> {}

ListTools ==
    [tools |-> [i \in 1..Len(ToolNames) |->
                    [name |-> ToolNames[i], required |-> Required(ToolNames[i])]]]

Advertised == {ListTools.tools[i].name : i \in 1..Len(ListTools.tools)}

----------------------------------------------------------------------------
(* Program constants *)

DefaultContactLimit == 10
DefaultDealLimit == 20
SummaryLimit == 100
EmailSearchLimit == 1

ContactProps == <<"firstname", "lastname", "email", "phone", "company">>
ContactDetailProps == ContactProps \o <<"lifecyclestage">>
DealProps == <<"dealname", "amount", "dealstage", "pipeline", "closedate">>
SummaryProps == <<"dealname", "amount", "dealstage">>

ContactSearchPath == <<"/crm/v3/objects/contacts/search">>
ContactsPath == <<"/crm/v3/objects/contacts">>
DealSearchPath == <<"/crm/v3/objects/deals/search">>
DealsPath == <<"/crm/v3/objects/deals">>
ContactByIdPrefix == <<"/crm/v3/objects/contacts/">>
ContactByIdSuffix == <<"?properties=firstname,lastname,email,phone,company,lifecyclestage">>

----------------------------------------------------------------------------
(* Outcomes of a piece of handler code *)

Throw(message) == [kind |-> "throw", message |-> message]
Return(value) == [kind |-> "return", value |-> value]
Call(request) == [kind |-> "call", request |-> request]

\* TypeError of reading a property of undefined
ReadOfUndefined(key) ==
    <<"Cannot read properties of undefined (reading '", key, "')">>

NotAFunction(what) == <<what, " is not a function">>

Post(path, body) == [method |-> "POST", path |-> path, body |-> body]
Fetch(path) == [method |-> "GET", path |-> path]

\* one filter of a search body as JSON.stringify writes it
Filter(property, operator, value) ==
    IF value = Undefined
    THEN [propertyName |-> property, operator |-> operator]
    ELSE [propertyName |-> property, operator |-> operator, value |-> value]

FilterGroup(property, operator, value) ==
    [filters |-> <<Filter(property, operator, value)>>]

----------------------------------------------------------------------------
(* The translators, up to their outbound call: the switch of the           *)
(* CallToolRequestSchema handler.  hasArgs is FALSE when request.params     *)
(* carries no arguments member, so that args is undefined.                 *)

SearchContactsCall(hasArgs, args) ==
    IF ~hasArgs THEN Throw(ReadOfUndefined("limit"))
    ELSE LET limit == OrElse(Get(args, "limit"), Num(DefaultContactLimit))
             query == Get(args, "query")
         IN  Call(Post(ContactSearchPath,
                 [filterGroups |-> <<FilterGroup("email", "CONTAINS_TOKEN", query),
                                     FilterGroup("firstname", "CONTAINS_TOKEN", query),
                                     FilterGroup("lastname", "CONTAINS_TOKEN", query)>>,
                  properties |-> ContactProps,
                  limit |-> limit]))

\* String.prototype.includes("@")
IsEmailWrong(chars) == Len(chars) > 0 /\ chars[1] = "@"
IsEmail(chars) == \E i \in 1..Len(chars) : chars[i] = "@"

GetContactCall(hasArgs, args) ==
    IF ~hasArgs THEN Throw(ReadOfUndefined("contact_id"))
    ELSE LET id == Get(args, "contact_id")
         IN  CASE id.t = "undefined" -> Throw(ReadOfUndefined("includes"))
               [] id.t = "number" -> Throw(NotAFunction("args.contact_id.includes"))
               [] OTHER ->
                    IF IsEmail(id.s)
                    THEN Call(Post(ContactSearchPath,
                            [filterGroups |-> <<FilterGroup("email", "EQ", id)>>,
                             properties |-> ContactDetailProps,
                             limit |-> Num(EmailSearchLimit)]))
                    ELSE Call(Fetch(ContactByIdPrefix \o id.s \o ContactByIdSuffix))

CreateContactCall(hasArgs, args) ==
    Call(Post(ContactsPath,
        IF hasArgs THEN [properties |-> JsonObject(args)] ELSE <<>>))

SearchDealsCall(hasArgs, args) ==
    IF ~hasArgs THEN Throw(ReadOfUndefined("limit"))
    ELSE LET limit == OrElse(Get(args, "limit"), Num(DefaultDealLimit))
             stage == Get(args, "pipeline_stage")
         IN  Call(Post(DealSearchPath,
                 IF Truthy(stage)
                 THEN [filterGroups |-> <<FilterGroup("dealstage", "EQ", stage)>>,
                       properties |-> DealProps,
                       limit |-> limit]
                 ELSE [properties |-> DealProps, limit |-> limit]))

\* the property set create_deal builds, before it is serialised
DealPropertiesVerbatim(args) == args
DealProperties(args) ==
    [dealname |-> Get(args, "dealname"),
     amount |-> Get(args, "amount"),
     dealstage |-> Get(args, "dealstage"),
     pipeline |-> OrElse(Get(args, "pipeline"), Str(<<"default">>))]

CreateDealCall(hasArgs, args) ==
    IF ~hasArgs THEN Throw(ReadOfUndefined("dealname"))
    ELSE Call(Post(DealsPath, [properties |-> JsonObject(DealProperties(args))]))

PipelineSummaryCall ==
    Call(Post(DealSearchPath,
        [properties |-> SummaryProps, limit |-> Num(SummaryLimit)]))

UnknownTool(name) == Throw(<<"Unknown tool: ", name>>)

Translate(name, hasArgs, args) ==
    CASE name = "search_contacts" -> SearchContactsCall(hasArgs, args)
      [] name = "get_contact" -> GetContactCall(hasArgs, args)
      [] name = "create_contact" -> CreateContactCall(hasArgs, args)
      [] name = "search_deals" -> SearchDealsCall(hasArgs, args)
      [] name = "create_deal" -> CreateDealCall(hasArgs, args)
      [] name = "get_pipeline_summary" -> PipelineSummaryCall
      [] OTHER -> UnknownTool(name)

----------------------------------------------------------------------------
(* hubspotRequest: the outcome of one outbound call.  An upstream outcome  *)
(* is either a rejected fetch, or a response [status, text, jsonOk, json]. *)

\* response.ok
ResponseOkOnly200(status) == status = 200
ResponseOk(status) == status \in 200..299

\* `HubSpot API error: ${response.status} - ${error}`
ApiErrorMessageNoBody(status, text) ==
    <<"HubSpot API error: ">> \o NumToChars(status)
ApiErrorMessage(status, text) ==
    <<"HubSpot API error: ">> \o NumToChars(status) \o <<" - ">> \o text

FetchFailed == <<"request to https://api.hubapi.com failed">>
InvalidJson == <<"invalid json response body">>

HubspotRequest(o) ==
    IF o.kind = "neterr" THEN Throw(FetchFailed)
    ELSE IF ~ResponseOk(o.status) THEN Throw(ApiErrorMessage(o.status, o.text))
    ELSE IF ~o.jsonOk THEN Throw(InvalidJson)
    ELSE Return(o.json)

----------------------------------------------------------------------------
(* Numbers of the aggregation.  A double is [nan, hi, lo], standing for    *)
(* hi * 2^53 + lo with 0 <= lo < 2^53: every integer below 2^53 is a       *)
(* double, and from 2^53 on only the multiples of the unit in the last     *)
(* place are.  An addition is the exact sum rounded to the nearest double, *)
(* ties to the even significand.                                           *)

NaN == [nan |-> TRUE, hi |-> 0, lo |-> 0]
Double(hi, lo) == [nan |-> FALSE, hi |-> hi, lo |-> lo]
Zero == Double(0, 0)

RECURSIVE Pow2Floor(_)
Pow2Floor(h) == IF h < 2 THEN 1 ELSE 2 * Pow2Floor(h \div 2)

\* the spacing of the doubles in the binade of hi * 2^53 + lo
Ulp(hi) == IF hi = 0 THEN 1 ELSE 2 * Pow2Floor(hi)

RoundToDouble(hi, lo) ==
    LET u == Ulp(hi)
        q == lo \div u
        r == lo % u
    IN  IF 2 * r < u \/ (2 * r = u /\ q % 2 = 0)
        THEN Double(hi, q * u)
        ELSE Double(hi, (q + 1) * u)

\* x + y
FAdd(x, y) == RoundToDouble(x.hi + y.hi, x.lo + y.lo)

\* x || 0
OrZero(x) == IF x.nan \/ (x.hi = 0 /\ x.lo = 0) THEN Zero ELSE x

Digits == {"0", "1", "2", "3", "4", "5", "6", "7", "8", "9"}

DigitValue(c) == CHOOSE d \in 0..9 : DigitChar(d) = c

\* the longest prefix of digits
RECURSIVE DigitPrefix(_)
DigitPrefix(chars) ==
    IF chars = <<>> \/ Head(chars) \notin Digits THEN <<>>
    ELSE <<Head(chars)>> \o DigitPrefix(Tail(chars))

RECURSIVE DecimalValue(_)
DecimalValue(digits) ==
    IF digits = <<>> THEN 0
    ELSE 10 * DecimalValue(SubSeq(digits, 1, Len(digits) - 1))
            + DigitValue(digits[Len(digits)])

\* the decimal digits of 2^53
TwoPow53 ==
    <<"9", "0", "0", "7", "1", "9", "9", "2", "5", "4", "7", "4", "0", "9", "9", "2">>

\* parseFloat of a value: the number its leading digits spell, NaN when it
\* has none (or is no string).  The numerals of the model are 2^53 and
\* numerals of at most nine digits.
ParseFloat(v) ==
    IF v.t # "string" THEN NaN
    ELSE LET digits == DigitPrefix(v.s)
         IN  IF digits = <<>> THEN NaN
             ELSE IF digits = TwoPow53 THEN Double(1, 0)
             ELSE Double(0, DecimalValue(digits))

----------------------------------------------------------------------------
(* get_pipeline_summary: the forEach over data.results.  summary is the    *)
(* object literal {}: its own properties in insertion order, each          *)
(* [stage, count, totalValue], and behind them the members every object    *)
(* inherits from Object.prototype.                                         *)

Won == <<"w", "o", "n">>
Unknown == <<"U", "n", "k", "n", "o", "w", "n">>
ProtoKey == <<"_", "_", "p", "r", "o", "t", "o", "_", "_">>
ConstructorKey == <<"c", "o", "n", "s", "t", "r", "u", "c", "t", "o", "r">>

\* names that summary[name] resolves through the prototype chain to an
\* object or function (a truthy value), among them
InheritedKeys == {ProtoKey, ConstructorKey}

\* the position of stage among the own properties, 0 when it is not one
OwnIndex(summary, stage) ==
    IF \E i \in 1..Len(summary) : summary[i].stage = stage
    THEN CHOOSE i \in 1..Len(summary) : summary[i].stage = stage
    ELSE 0

\* one pass of the loop body; acc = [summary, totalValue, writes], writes
\* being the inherited members that count/totalValue were written onto
SummaryStep(acc, deal) ==
    LET stage == OrElse(Get(deal.properties, "dealstage"), Str(Unknown)).s
        amount == OrZero(ParseFloat(Get(deal.properties, "amount")))
        i == OwnIndex(acc.summary, stage)
    IN  IF i # 0
        THEN [acc EXCEPT !.summary[i].count = @ + 1,
                         !.summary[i].totalValue = FAdd(@, amount),
                         !.totalValue = FAdd(@, amount)]
        ELSE IF stage \in InheritedKeys
        THEN [acc EXCEPT !.writes = @ \cup {stage},
                         !.totalValue = FAdd(@, amount)]
        ELSE [acc EXCEPT !.summary = Append(@, [stage |-> stage, count |-> 1,
                                                totalValue |-> FAdd(Zero, amount)]),
                         !.totalValue = FAdd(@, amount)]

RECURSIVE Aggregate(_, _)
Aggregate(acc, deals) ==
    IF deals = <<>> THEN acc
    ELSE Aggregate(SummaryStep(acc, Head(deals)), Tail(deals))

\* const summary = {}; let totalValue = 0; and the loop
Summarize(deals, writes) ==
    Aggregate([summary |-> <<>>, totalValue |-> Zero, writes |-> writes], deals)

----------------------------------------------------------------------------
(* Results *)

\* JSON.stringify(value, null, 2), and what it gives for undefined
JsonText(value) == <<"JSON", value>>
UndefinedText == <<"undefined">>

SuccessResult(text) == [content |-> <<[type |-> "text", text |-> text]>>]

ErrorResult(message) ==
    [content |-> <<[type |-> "text", text |-> <<"Error: ">> \o message]>>,
     isError |-> TRUE]

\* how a call of the handler ends for its caller
Returned(value) == [raised |-> FALSE, value |-> value]
Raised(message) == [raised |-> TRUE, message |-> message]

\* catch (error) { return {...} }
CatchAllRethrow(message) == Raised(message)
CatchAll(message) == Returned(ErrorResult(message))

----------------------------------------------------------------------------
(* The translators, after their outbound call returned data: the text of   *)
(* the result and the inherited members written                            *)

Interpret(r, data, writes) ==
    CASE r.name \in {"search_contacts", "search_deals"} ->
            [text |-> JsonText(data.results), writes |-> writes]
      [] r.name = "get_contact" ->
            IF IsEmail(r.args["contact_id"].s)
            THEN [text |-> IF data.results = <<>> THEN UndefinedText
                           ELSE JsonText(data.results[1]),
                  writes |-> writes]
            ELSE [text |-> JsonText(data), writes |-> writes]
      [] r.name = "create_contact" ->
            [text |-> <<"Contact created successfully! ID: ">> \o data.id
                        \o <<"\n">> \o JsonText(data),
             writes |-> writes]
      [] r.name = "create_deal" ->
            [text |-> <<"Deal created successfully! ID: ">> \o data.id
                        \o <<"\n">> \o JsonText(data),
             writes |-> writes]
      [] r.name = "get_pipeline_summary" ->
            LET acc == Summarize(data.results, writes)
            IN  [text |-> <<"Pipeline Summary:\n">> \o
                          JsonText([summary |-> acc.summary,
                                    totalDeals |-> Len(data.results),
                                    totalValue |-> acc.totalValue]),
                 writes |-> acc.writes]

\* the handler once hubspotRequest has settled with got: its result and
\* the members written; made are the outbound calls it issued
Finish(r, made, got, writes) ==
    IF got.kind = "throw"
    THEN [next |-> "done", sent |-> made,
          result |-> CatchAll(got.message), writes |-> writes]
    ELSE LET fin == Interpret(r, got.value, writes)
         IN  [next |-> "done", sent |-> made,
              result |-> Returned(SuccessResult(fin.text)),
              writes |-> fin.writes]

\* the handler from the point where its outbound call settles with the
\* upstream outcome o
ResumeRetrying(r, made, o, writes) ==
    IF HubspotRequest(o).kind = "throw" /\ Len(made) < 2
    THEN [next |-> "awaiting", sent |-> Append(made, made[Len(made)]),
          result |-> [none |-> TRUE], writes |-> writes]
    ELSE Finish(r, made, HubspotRequest(o), writes)
Resume(r, made, o, writes) == Finish(r, made, HubspotRequest(o), writes)

----------------------------------------------------------------------------
(* Inputs: the tool calls a caller makes and what the upstream answers     *)

NoRequest == [none |-> TRUE]
NoOutcome == [none |-> TRUE]
NoResult == [none |-> TRUE]

RequestNames ==
    {"search_contacts", "get_contact", "create_contact", "search_deals",
     "create_deal", "get_pipeline_summary", "unknown_tool"}

ArgKeys(name) ==
    CASE name = "search_contacts" -> {"query", "limit"}
      [] name = "get_contact" -> {"contact_id"}
      [] name = "create_contact" -> {"email", "foo"}
      [] name = "search_deals" -> {"pipeline_stage", "limit"}
      [] name = "create_deal" -> {"dealname", "amount", "dealstage", "pipeline", "foo"}
      [] OTHER -> {}

ArgValues(key) ==
    CASE key = "query" -> {Str(<<"a", "c">>)}
      [] key = "limit" -> {Num(0), Num(5)}
      [] key = "contact_id" -> {Str(<<"1", "2">>), Str(<<"a", "@", "b">>), Num(12)}
      [] key = "email" -> {Str(<<"a", "@", "b">>)}
      [] key = "pipeline_stage" -> {Str(Won), Str(<<>>)}
      [] key = "dealname" -> {Str(<<"B">>)}
      [] key = "amount" -> {Num(100)}
      [] key = "dealstage" -> {Str(Won)}
      [] key = "pipeline" -> {Str(<<"s">>), Str(<<>>)}
      [] key = "foo" -> {Str(<<"b", "a", "r">>)}

\* the arguments objects with some of the keys, each with one of its values
ArgObjects(keys) ==
    UNION {{f \in [present -> UNION {ArgValues(k) : k \in present}] :
                \A k \in present : f[k] \in ArgValues(k)} :
           present \in SUBSET keys}

Requests ==
    UNION {{[name |-> name, hasArgs |-> TRUE, args |-> a] :
                a \in ArgObjects(ArgKeys(name))}
           \cup {[name |-> name, hasArgs |-> FALSE, args |-> <<>>]} :
           name \in RequestNames}

\* sequences over S of length at most n
RECURSIVE SeqsUpTo(_, _)
SeqsUpTo(S, n) ==
    IF n = 0 THEN {<<>>}
    ELSE LET shorter == SeqsUpTo(S, n - 1)
         IN  shorter \cup {Append(q, x) : q \in shorter, x \in S}

Records == {[id |-> <<"5", "1">>]}

DealValues(key) ==
    CASE key = "dealstage" -> {Str(Won), Str(<<>>), Str(ProtoKey)}
      [] key = "amount" -> {Str(<<"1">>), Str(<<"b", "a", "d">>), Str(TwoPow53)}

\* the deals with some of dealstage and amount
Deals ==
    UNION {{[properties |-> p] :
                p \in {f \in [present -> UNION {DealValues(k) : k \in present}] :
                           \A k \in present : f[k] \in DealValues(k)}} :
           present \in SUBSET {"dealstage", "amount"}}

IsSummaryCall(request) ==
    /\ request.path = DealSearchPath
    /\ "filterGroups" \notin DOMAIN request.body
    /\ request.body.limit = Num(SummaryLimit)

OkResponse(status, json) ==
    [kind |-> "response", status |-> status, text |-> <<>>, jsonOk |-> TRUE,
     json |-> json]

FailureOutcomes ==
    {[kind |-> "neterr"],
     [kind |-> "response", status |-> 401, text |-> <<"unauthorized">>,
      jsonOk |-> FALSE, json |-> <<>>],
     [kind |-> "response", status |-> 500, text |-> <<>>,
      jsonOk |-> FALSE, json |-> <<>>],
     [kind |-> "response", status |-> 200, text |-> <<"<html>">>,
      jsonOk |-> FALSE, json |-> <<>>]}

\* the bodies the API documents for a successful call
OkOutcomes(request) ==
    IF request.method = "GET"
    THEN {OkResponse(200, rec) : rec \in Records}
    ELSE IF request.path \in {ContactsPath, DealsPath}
    THEN {OkResponse(201, rec) : rec \in Records}
    ELSE IF IsSummaryCall(request)
    THEN {OkResponse(200, [results |-> d]) : d \in SeqsUpTo(Deals, MaxDeals)}
    ELSE {OkResponse(200, [results |-> l]) : l \in SeqsUpTo(Records, MaxResults)}

Outcomes(request) == FailureOutcomes \cup OkOutcomes(request)

----------------------------------------------------------------------------
(* Actions *)

Init ==
    /\ pc = [i \in Slots |-> "idle"]
    /\ req = [i \in Slots |-> NoRequest]
    /\ sent = [i \in Slots |-> <<>>]
    /\ resp = [i \in Slots |-> NoOutcome]
    /\ result = [i \in Slots |-> NoResult]
    /\ builtinWrites = {}

\* a tools/call request arrives: the handler runs until it is suspended in
\* its outbound call, or until it ends without making one
Invoke(i, r) ==
    /\ pc[i] = "idle"
    /\ req' = [req EXCEPT ![i] = r]
    /\ LET t == Translate(r.name, r.hasArgs, r.args)
       IN  IF t.kind = "call"
           THEN /\ pc' = [pc EXCEPT ![i] = "awaiting"]
                /\ sent' = [sent EXCEPT ![i] = <<t.request>>]
                /\ UNCHANGED result
           ELSE /\ pc' = [pc EXCEPT ![i] = "done"]
                /\ result' = [result EXCEPT ![i] = CatchAll(t.message)]
                /\ UNCHANGED sent
    /\ UNCHANGED <<resp, builtinWrites>>

\* the outbound call settles and the handler runs to its end
Respond(i, o) ==
    /\ pc[i] = "awaiting"
    /\ LET step == Resume(req[i], sent[i], o, builtinWrites)
       IN  /\ pc' = [pc EXCEPT ![i] = step.next]
           /\ sent' = [sent EXCEPT ![i] = step.sent]
           /\ result' = [result EXCEPT ![i] = step.result]
           /\ builtinWrites' = step.writes
    /\ resp' = [resp EXCEPT ![i] = o]
    /\ UNCHANGED req

\* the transport has taken the result; the slot serves the next call
Deliver(i) ==
    /\ pc[i] = "done"
    /\ pc' = [pc EXCEPT ![i] = "idle"]
    /\ req' = [req EXCEPT ![i] = NoRequest]
    /\ sent' = [sent EXCEPT ![i] = <<>>]
    /\ resp' = [resp EXCEPT ![i] = NoOutcome]
    /\ result' = [result EXCEPT ![i] = NoResult]
    /\ UNCHANGED builtinWrites

\* one caller, one call at a time
Next ==
    \/ \E r \in Requests : Invoke(1, r)
    \/ /\ pc[1] = "awaiting"
       /\ \E o \in Outcomes(sent[1][Len(sent[1])]) : Respond(1, o)
    \/ Deliver(1)

Spec == Init /\ [][Next]_vars

----------------------------------------------------------------------------
(* Properties of the dispatcher *)

Done(i) == pc[i] = "done"
Started(i) == pc[i] \in {"awaiting", "done"}

\* the upstream answered with a success status and a JSON body
UpstreamOk(i) ==
    /\ "kind" \in DOMAIN resp[i]
    /\ resp[i].kind = "response"
    /\ resp[i].status \in 200..299
    /\ resp[i].jsonOk

\* the upstream answered with a non-success status
UpstreamRefused(i) ==
    /\ "kind" \in DOMAIN resp[i]
    /\ resp[i].kind = "response"
    /\ resp[i].status \notin 200..299

\* v is an error result: flagged, with one text block that starts "Error: "
IsErrorResult(v) ==
    /\ "isError" \in DOMAIN v
    /\ v.isError = TRUE
    /\ Len(v.content) = 1
    /\ v.content[1].type = "text"
    /\ Len(v.content[1].text) > 1
    /\ v.content[1].text[1] = "Error: "

\* C1: every tool call ends by returning a result, never by raising; when the
\* upstream did not answer with a success (a non-success status, a call that
\* was never made because the name is unknown or building it raised, a
\* rejected fetch, an unreadable body) the result is flagged isError with
\* exactly one text block "Error: " + message, and for an unknown name the
\* message is "Unknown tool: <name>"
C1_NeverRaises ==
    \A i \in Slots :
        Done(i) =>
            /\ ~result[i].raised
            /\ ~UpstreamOk(i) => IsErrorResult(result[i].value)
            /\ req[i].name \notin Advertised =>
                   /\ IsErrorResult(result[i].value)
                   /\ result[i].value.content[1].text
                        = <<"Error: ", "Unknown tool: ", req[i].name>>

C1_Witness ==
    \E i \in Slots :
        /\ Done(i)
        /\ req[i].name = "unknown_tool"
        /\ result[i].value.isError

\* the arguments carry every required field of the tool's schema, with the
\* schema's type
MinimallyValid(r) ==
    /\ r.hasArgs
    /\ \A t \in 1..Len(ListTools.tools) :
           ListTools.tools[t].name = r.name =>
               ListTools.tools[t].required \subseteq DOMAIN r.args
    /\ r.name = "get_contact" => r.args["contact_id"].t = "string"

SucceededCall(i) ==
    /\ Done(i)
    /\ req[i].name \in Advertised
    /\ MinimallyValid(req[i])
    /\ UpstreamOk(i)

\* C2 as stated: an advertised tool called with valid arguments whose API
\* call succeeds returns a result whose isError is false
C2_IsErrorFalse ==
    \A i \in Slots :
        SucceededCall(i) =>
            /\ ~result[i].raised
            /\ "isError" \in DOMAIN result[i].value
            /\ result[i].value.isError = FALSE

\* C2 amended: such a call returns a result that is not flagged as an error:
\* the result has one text block and no isError member at all
C2_NotFlagged ==
    \A i \in Slots :
        SucceededCall(i) =>
            /\ ~result[i].raised
            /\ "isError" \notin DOMAIN result[i].value
            /\ Len(result[i].value.content) = 1

C2_Witness ==
    \E i \in Slots :
        /\ SucceededCall(i)
        /\ req[i].name = "create_deal"
        /\ resp[i].status = 201

\* C3: the advertised names are exactly the names the dispatcher translates:
\* a call ends in the "Unknown tool" failure exactly when its name is not
\* advertised, and only advertised names get as far as an outbound call
C3_RegistryMatchesDispatcher ==
    \A i \in Slots :
        /\ Done(i) =>
               (req[i].name \notin Advertised
                  <=> /\ IsErrorResult(result[i].value)
                      /\ result[i].value.content[1].text[2] = "Unknown tool: ")
        /\ Started(i) /\ sent[i] # <<>> => req[i].name \in Advertised

C3_Witness ==
    \E i \in Slots :
        /\ Done(i)
        /\ req[i].name = "get_pipeline_summary"
        /\ UpstreamOk(i)
        /\ "isError" \notin DOMAIN result[i].value

\* C4: a call whose upstream answer has a non-success status returns
\* isError = true with a text that contains the status code and the body text
C4_StatusAndBodyReported ==
    \A i \in Slots :
        Done(i) /\ UpstreamRefused(i) =>
            /\ ~result[i].raised
            /\ IsErrorResult(result[i].value)
            /\ Contains(result[i].value.content[1].text, NumToChars(resp[i].status))
            /\ Contains(result[i].value.content[1].text, resp[i].text)

C4_Witness ==
    \E i \in Slots :
        /\ Done(i)
        /\ UpstreamRefused(i)
        /\ resp[i].status = 401
        /\ resp[i].text = <<"unauthorized">>
        /\ Contains(result[i].value.content[1].text, <<"4", "0", "1">>)

\* building the outbound call raises before any call is made: a translator
\* that reads a member of absent arguments, or get_contact whose contact_id
\* is no string
BuildRaises(r) ==
    \/ ~r.hasArgs /\ r.name \in {"search_contacts", "get_contact",
                                 "search_deals", "create_deal"}
    \/ /\ r.hasArgs
       /\ r.name = "get_contact"
       /\ ("contact_id" \notin DOMAIN r.args \/ r.args["contact_id"].t # "string")

C6_RoutesOnAt ==
    \A i \in Slots :
        /\ Started(i)
        /\ req[i].name = "get_contact"
        /\ req[i].hasArgs
        /\ "contact_id" \in DOMAIN req[i].args
        /\ req[i].args["contact_id"].t = "string"
        => LET id == req[i].args["contact_id"]
           IN  /\ Len(sent[i]) = 1
               /\ IF \E k \in 1..Len(id.s) : id.s[k] = "@"
                  THEN /\ sent[i][1].method = "POST"
                       /\ sent[i][1].path = <<"/crm/v3/objects/contacts/search">>
                       /\ sent[i][1].body.limit = Num(1)
                       /\ sent[i][1].body.filterGroups =
                            <<[filters |-> <<[propertyName |-> "email",
                                              operator |-> "EQ",
                                              value |-> id]>>]>>
                  ELSE /\ sent[i][1].method = "GET"
                       /\ sent[i][1].path =
                            <<"/crm/v3/objects/contacts/">> \o id.s
                              \o <<"?properties=firstname,lastname,email,phone,company,lifecyclestage">>

C6_Witness ==
    \E i \in Slots :
        /\ Started(i)
        /\ req[i].name = "get_contact"
        /\ req[i].hasArgs
        /\ "contact_id" \in DOMAIN req[i].args
        /\ req[i].args["contact_id"] = Str(<<"a", "@", "b">>)
        /\ sent[i][1].method = "POST"

DealKeys == {"dealname", "amount", "dealstage", "pipeline"}

\* C7 as stated: the properties create_deal sends carry exactly the keys
\* dealname, amount, dealstage, pipeline, whatever the arguments object is,
\* and pipeline is "default" when not supplied
C7_ExactlyFourKeys ==
    \A i \in Slots :
        Started(i) /\ req[i].name = "create_deal" /\ req[i].hasArgs =>
            /\ Len(sent[i]) = 1
            /\ DOMAIN sent[i][1].body.properties = DealKeys
            /\ "pipeline" \notin DOMAIN req[i].args =>
                   sent[i][1].body.properties["pipeline"] = Str(<<"default">>)

\* C7 amended: the properties create_deal sends carry only keys among
\* dealname, amount, dealstage, pipeline: pipeline always ("default" when not
\* supplied or empty) and each of the other three exactly when the arguments
\* supply it, with the supplied value; any other argument field is dropped
C7_OnlyWhitelistedKeys ==
    \A i \in Slots :
        Started(i) /\ req[i].name = "create_deal" /\ req[i].hasArgs =>
            LET args == req[i].args
                props == sent[i][1].body.properties
            IN  /\ Len(sent[i]) = 1
                /\ DOMAIN props = {"pipeline"} \cup (DealKeys \cap DOMAIN args)
                /\ \A k \in (DOMAIN props) \ {"pipeline"} : props[k] = args[k]
                /\ props["pipeline"] =
                     IF "pipeline" \in DOMAIN args /\ args["pipeline"].s # <<>>
                     THEN args["pipeline"] ELSE Str(<<"default">>)

C7_Witness ==
    \E i \in Slots :
        /\ Started(i)
        /\ req[i].name = "create_deal"
        /\ req[i].hasArgs
        /\ "foo" \in DOMAIN req[i].args
        /\ "dealname" \notin DOMAIN req[i].args
        /\ "pipeline" \notin DOMAIN req[i].args
        /\ Len(sent[i]) = 1

----------------------------------------------------------------------------
(* The pipeline summary *)

SummaryDone(i) ==
    /\ Done(i)
    /\ req[i].name = "get_pipeline_summary"
    /\ UpstreamOk(i)

\* the deals the upstream returned and the object the result text renders
DealsOf(i) == resp[i].json.results
SummaryOf(i) == result[i].value.content[1].text[3]

\* the stage a deal counts under and the amount it contributes
StageOf(deal) ==
    IF "dealstage" \in DOMAIN deal.properties /\ deal.properties["dealstage"].s # <<>>
    THEN deal.properties["dealstage"].s
    ELSE Unknown

AmountOf(deal) == OrZero(ParseFloat(Get(deal.properties, "amount")))

\* the emitted stage -> [count, totalValue] mapping
Mapping(summary) ==
    [st \in {summary[k].stage : k \in 1..Len(summary)} |->
        LET e == summary[OwnIndex(summary, st)]
        IN  [count |-> e.count, totalValue |-> e.totalValue]]

Permuted(deals, f) == [k \in 1..Len(deals) |-> deals[f[k]]]

\* the sum of the values of a function with a finite domain
RECURSIVE Sum(_)
Sum(f) ==
    IF DOMAIN f = {} THEN 0
    ELSE LET x == CHOOSE y \in DOMAIN f : TRUE
         IN  f[x] + Sum([y \in (DOMAIN f) \ {x} |-> f[y]])

\* C8 as stated: the summary depends on the deals returned, not on their
\* order: every permutation of them gives the same stage mapping, totalDeals
\* and totalValue, each deal being counted under its stage ("Unknown" when
\* absent or empty) and adding its parsed amount (0 when missing or not a
\* number) to that stage
C8_OrderIndependent ==
    \A i \in Slots :
        SummaryDone(i) =>
            LET deals == DealsOf(i)
                out == SummaryOf(i)
                map == Mapping(out.summary)
                At(st) == {k \in 1..Len(deals) : StageOf(deals[k]) = st}
            IN  /\ \A f \in Permutations(1..Len(deals)) :
                       LET other == Summarize(Permuted(deals, f), {})
                       IN  /\ Mapping(other.summary) = map
                           /\ other.totalValue = out.totalValue
                /\ out.totalDeals = Len(deals)
                /\ DOMAIN map = {StageOf(deals[k]) : k \in 1..Len(deals)}
                /\ \A st \in DOMAIN map :
                       /\ map[st].count = Cardinality(At(st))
                       /\ map[st].totalValue.hi = Sum([k \in At(st) |-> AmountOf(deals[k]).hi])
                       /\ map[st].totalValue.lo = Sum([k \in At(st) |-> AmountOf(deals[k]).lo])

\* C10 as stated: in a summary the per-stage counts add up to totalDeals, the
\* per-stage totalValues add up to the grand totalValue, and every deal is
\* accounted for in one stage entry of the emitted mapping
C10_TotalsAddUp ==
    \A i \in Slots :
        SummaryDone(i) =>
            LET deals == DealsOf(i)
                out == SummaryOf(i)
                entries == 1..Len(out.summary)
            IN  /\ Sum([k \in entries |-> out.summary[k].count]) = out.totalDeals
                /\ Sum([k \in entries |-> out.summary[k].totalValue.hi]) = out.totalValue.hi
                /\ Sum([k \in entries |-> out.summary[k].totalValue.lo]) = out.totalValue.lo
                /\ \A d \in 1..Len(deals) :
                       Cardinality({k \in entries :
                                        out.summary[k].stage = StageOf(deals[d])}) = 1

----------------------------------------------------------------------------
(* Calls in flight together: every slot takes calls on its own, and the    *)
(* outbound calls settle in any order.  The calls and answers are a part   *)
(* of those above: each tool with all its arguments, an unknown tool, a    *)
(* refusal, and for the summary a few deals.                               *)

ConcRequests ==
    {r \in Requests : r.hasArgs /\ DOMAIN r.args = ArgKeys(r.name)}

ConcDeals ==
    {[properties |-> [dealstage |-> Str(Won), amount |-> Str(<<"1", "0", "0">>)]],
     [properties |-> [dealstage |-> Str(ProtoKey), amount |-> Str(<<"1">>)]]}

ConcOutcomes(request) ==
    {o \in FailureOutcomes : o.kind = "response" /\ o.status = 401}
    \cup IF IsSummaryCall(request)
         THEN {OkResponse(200, [results |-> d]) : d \in SeqsUpTo(ConcDeals, 2)}
         ELSE OkOutcomes(request)

NextConc ==
    \E i \in Slots :
        \/ \E r \in ConcRequests : Invoke(i, r)
        \/ /\ pc[i] = "awaiting"
           /\ \E o \in ConcOutcomes(sent[i][Len(sent[i])]) : Respond(i, o)
        \/ Deliver(i)

SpecConc == Init /\ [][NextConc]_vars

\* what a call does when it is the only one the process ever serves: the
\* outbound calls it makes, and its result when its call settles with o
AloneSent(r) ==
    LET t == Translate(r.name, r.hasArgs, r.args)
    IN  IF t.kind = "call" THEN <<t.request>> ELSE <<>>

AloneResult(r, o) ==
    LET t == Translate(r.name, r.hasArgs, r.args)
    IN  IF t.kind = "call"
        THEN Resume(r, <<t.request>>, o, {}).result
        ELSE CatchAll(t.message)

\* every call in flight makes the outbound call, and ends with the result,
\* that it would alone
SameAsAlone ==
    \A i \in Slots :
        /\ Started(i) => sent[i] = AloneSent(req[i])
        /\ Done(i) => result[i] = AloneResult(req[i], resp[i])

\* C9 as stated: calls in flight together are independent, each one's
\* outbound request and result being what they would be alone, because no
\* call leaves or finds mutable state shared with another
C9_Independent ==
    /\ SameAsAlone
    /\ builtinWrites = {}

====
